---- MODULE Spec2Model ----
(***************************************************************************)
(* Model of oozie-memory.py: the value transformers increase_yarn_value    *)
(* and increase_general_value, the document walk process_xml, and the      *)
(* orchestration process_oozie_workflow.                                   *)
(*                                                                         *)
(* Python strings are sequences of one-character strings.  A call that can *)
(* raise returns a record [exc, val]: exc = "none" and val the result, or  *)
(* exc the name of the exception.                                          *)
(***************************************************************************)
EXTENDS Integers, Sequences, FiniteSets, TLC

VARIABLES
    pc,              \* position of process_oozie_workflow / process_xml
    raw_status,      \* match.group(1) of the job-status output, or NoMatch
    delta_mb,        \* delta_mb argument
    yarn_only,       \* yarn_only argument
    fs,              \* distributed filesystem: hadoop_path and backup_path
    original,        \* content at hadoop_path when the run starts (history)
    local_file,      \* content of the local copy xml_file
    tree,            \* the parsed ElementTree: sequence of properties
    idx,             \* number of property elements the walk has visited
    modified_count,  \* modified_count of process_xml
    steps,           \* the workflow steps executed so far, in order
    v_orig,          \* value transformer harness: the input value
    v_name,          \* value transformer harness: the property name
    v_fn,            \* which transformer the harness applies
    v_calls,         \* how many times it has been applied (0..2)
    v_first,         \* result of the first application
    v_res            \* result of the latest application

vars == <<pc, raw_status, delta_mb, yarn_only, fs, original, local_file, tree,
          idx, modified_count, steps, v_orig, v_name, v_fn, v_calls, v_first,
          v_res>>

flowVars == <<raw_status, fs, original, local_file, tree, idx,
              modified_count, steps>>

valueVars == <<v_orig, v_name, v_fn, v_calls, v_first, v_res>>

---------------------------------------------------------------------------
(* Bounds *)

MaxMid == 3      \* longest middle part of a generated value string
MaxProps == 2    \* most property elements in a document

---------------------------------------------------------------------------
(* Python str / int primitives *)

Digits == {"0", "1", "2", "3", "4", "5", "6", "7", "8", "9"}

DigitSeq == <<"0", "1", "2", "3", "4", "5", "6", "7", "8", "9">>

DigitVal(c) == CHOOSE d \in 0..9 : DigitSeq[d + 1] = c

Whitespace == {" ", "\n"}

StartsWith(s, p) == Len(s) >= Len(p) /\ SubSeq(s, 1, Len(p)) = p

EndsWith(s, p) == Len(s) >= Len(p) /\ SubSeq(s, Len(s) - Len(p) + 1, Len(s)) = p

\* needle in hay
Contains(hay, needle) ==
    \E i \in 0..(Len(hay) - Len(needle)) :
        SubSeq(hay, i + 1, i + Len(needle)) = needle

\* str.isdigit() on ASCII text: non-empty and every character a digit
IsDigit(s) == Len(s) > 0 /\ \A i \in 1..Len(s) : s[i] \in Digits

RECURSIVE LStrip(_)
LStrip(s) == IF Len(s) > 0 /\ s[1] \in Whitespace THEN LStrip(Tail(s)) ELSE s

RECURSIVE RStrip(_)
RStrip(s) ==
    IF Len(s) > 0 /\ s[Len(s)] \in Whitespace
    THEN RStrip(SubSeq(s, 1, Len(s) - 1)) ELSE s

\* str.strip()
Strip(s) == LStrip(RStrip(s))

RECURSIVE NatToStr(_)
NatToStr(n) ==
    IF n < 10 THEN <<DigitSeq[n + 1]>>
    ELSE NatToStr(n \div 10) \o <<DigitSeq[(n % 10) + 1]>>

\* str(n) for an int n
IntToStr(n) == IF n < 0 THEN <<"-">> \o NatToStr(-n) ELSE NatToStr(n)

\* value of a digit string in which single underscores may separate digits
RECURSIVE DigitsValue(_)
DigitsValue(s) ==
    IF Len(s) = 0 THEN 0
    ELSE IF s[Len(s)] = "_" THEN DigitsValue(SubSeq(s, 1, Len(s) - 1))
    ELSE 10 * DigitsValue(SubSeq(s, 1, Len(s) - 1)) + DigitVal(s[Len(s)])

IntBodyOK(b) ==
    /\ Len(b) > 0
    /\ \A i \in 1..Len(b) : b[i] \in Digits \cup {"_"}
    /\ b[1] # "_"
    /\ b[Len(b)] # "_"
    /\ \A i \in 1..(Len(b) - 1) : ~(b[i] = "_" /\ b[i + 1] = "_")

\* int(s) for a str s: surrounding whitespace, an optional sign, digits;
\* anything else raises ValueError
PyInt(s) ==
    LET t == Strip(s)
        signed == Len(t) > 0 /\ t[1] \in {"+", "-"}
        body == IF signed THEN Tail(t) ELSE t
    IN IF IntBodyOK(body)
       THEN [exc |-> "none",
             val |-> IF signed /\ t[1] = "-" THEN 0 - DigitsValue(body)
                     ELSE DigitsValue(body)]
       ELSE [exc |-> "ValueError", val |-> 0]

Returned(s) == [exc |-> "none", val |-> s]

Raised(e) == [exc |-> e, val |-> <<>>]

---------------------------------------------------------------------------
(* Value transformers *)

Xmx == <<"-", "X", "m", "x">>

\* the whole of s is -Xmx<digits><one of the letters in sufs>
IsXmxForm(s, sufs) ==
    /\ Len(s) >= 6
    /\ StartsWith(s, Xmx)
    /\ s[Len(s)] \in sufs
    /\ IsDigit(SubSeq(s, 5, Len(s) - 1))

increase_yarn_value_twice(value, delta) ==
    IF StartsWith(value, Xmx) /\ EndsWith(value, <<"M">>)
    THEN LET num == PyInt(SubSeq(value, 5, Len(value) - 1))
         IN IF num.exc # "none" THEN Raised(num.exc)
            ELSE Returned(Xmx \o IntToStr(num.val + delta + delta) \o <<"M">>)
    ELSE IF IsDigit(value)
    THEN Returned(IntToStr(PyInt(value).val + delta))
    ELSE Returned(value)

increase_yarn_value(value, delta) ==
    IF StartsWith(value, Xmx) /\ EndsWith(value, <<"M">>)
    THEN LET num == PyInt(SubSeq(value, 5, Len(value) - 1))
         IN IF num.exc # "none" THEN Raised(num.exc)
            ELSE Returned(Xmx \o IntToStr(num.val + delta) \o <<"M">>)
    ELSE IF IsDigit(value)
    THEN Returned(IntToStr(PyInt(value).val + delta))
    ELSE Returned(value)

\* length of the longest run of digits of s that starts at position i
RECURSIVE DigitRun(_, _)
DigitRun(s, i) ==
    IF i <= Len(s) /\ s[i] \in Digits THEN 1 + DigitRun(s, i + 1) ELSE 0

\* re.match(r'-Xmx(\d+)([mM])', value): anchored at the start only
XmxMatch(value) ==
    LET n == DigitRun(value, 5)
    IN IF StartsWith(value, Xmx) /\ n > 0 /\ Len(value) >= 5 + n
          /\ value[5 + n] \in {"m", "M"}
       THEN [matched |-> TRUE, group1 |-> SubSeq(value, 5, 4 + n),
             group2 |-> <<value[5 + n]>>]
       ELSE [matched |-> FALSE, group1 |-> <<>>, group2 |-> <<>>]

increase_general_value_assign(value, delta, is_reduce_memory) ==
    IF StartsWith(value, <<"$", "{">>)
    THEN IF is_reduce_memory
         THEN Returned(Xmx \o IntToStr(delta - 512) \o <<"M">>)
         ELSE Returned(IntToStr(delta))
    ELSE IF IsDigit(value)
    THEN Returned(IntToStr(PyInt(value).val + delta))
    ELSE IF XmxMatch(value).matched
    THEN Returned(Xmx \o IntToStr(delta) \o XmxMatch(value).group2)
    ELSE Returned(value)

increase_general_value(value, delta, is_reduce_memory) ==
    IF StartsWith(value, <<"$", "{">>)
    THEN IF is_reduce_memory
         THEN Returned(Xmx \o IntToStr(delta - 512) \o <<"M">>)
         ELSE Returned(IntToStr(delta))
    ELSE IF IsDigit(value)
    THEN Returned(IntToStr(PyInt(value).val + delta))
    ELSE IF XmxMatch(value).matched
    THEN Returned(Xmx \o IntToStr(PyInt(XmxMatch(value).group1).val + delta)
                      \o XmxMatch(value).group2)
    ELSE Returned(value)

---------------------------------------------------------------------------
(* Property names *)

MapreduceDot == <<"m", "a", "p", "r", "e", "d", "u", "c", "e", ".">>

MemoryMb == <<"m", "e", "m", "o", "r", "y", ".", "m", "b">>

JavaOpts == <<"j", "a", "v", "a", ".", "o", "p", "t", "s">>

MapDot == <<"m", "a", "p", ".">>

ReduceDot == <<"r", "e", "d", "u", "c", "e", ".">>

YarnAppMapreduceAmDot ==
    <<"y", "a", "r", "n", ".", "a", "p", "p", ".">> \o MapreduceDot
        \o <<"a", "m", ".">>

YarnCommandOpts ==
    YarnAppMapreduceAmDot
        \o <<"c", "o", "m", "m", "a", "n", "d", "-", "o", "p", "t", "s">>

YarnResourceMb ==
    YarnAppMapreduceAmDot
        \o <<"r", "e", "s", "o", "u", "r", "c", "e", ".", "m", "b">>

MapMemoryMb == MapreduceDot \o MapDot \o MemoryMb

MapJavaOpts == MapreduceDot \o MapDot \o JavaOpts

ReduceMemoryMb == MapreduceDot \o ReduceDot \o MemoryMb

ReduceJavaOpts == MapreduceDot \o ReduceDot \o JavaOpts

\* names that carry one of the keys inside a longer name
LauncherReduceMemoryMb ==
    <<"o", "o", "z", "i", "e", ".", "l", "a", "u", "n", "c", "h", "e", "r", ".">>
        \o ReduceMemoryMb

YarnResourceMbMax == YarnResourceMb \o <<".", "m", "a", "x">>

EligibleYarn_contains(name) ==
    Contains(name, YarnCommandOpts) \/ Contains(name, YarnResourceMb)

EligibleYarn(name) == name = YarnCommandOpts \/ name = YarnResourceMb

EligibleGeneral(name) ==
    \E k \in {MapMemoryMb, MapJavaOpts, ReduceMemoryMb, ReduceJavaOpts} :
        Contains(name, k)

IsReduceMemory_contains(name) == Contains(name, ReduceMemoryMb)

IsReduceMemory(name) == name = ReduceMemoryMb

---------------------------------------------------------------------------
(* Inputs *)

\* the -add argument, in GB
Adds == {0, 1}

\* delta_mb arguments handed to the transformers directly
Deltas == {-1024, 0, 512, 1024}

\* main: delta_mb = args.add * 1024
DeltaOf(add) == add * 1024

MidAlphabet == {"0", "1", "+", "g", " "}

RECURSIVE SeqsUpTo(_, _)
SeqsUpTo(S, n) ==
    IF n = 0 THEN {<<>>}
    ELSE LET shorter == SeqsUpTo(S, n - 1)
         IN shorter \cup {Append(s, c) : s \in shorter, c \in S}

Prefixes == {<<>>, Xmx, <<"$", "{">>}

Suffixes == {<<>>, <<"M">>, <<"m">>, <<"m", " ", "-", "D">>}

\* value strings handed to the transformers
Values ==
    {p \o m \o s : p \in Prefixes, m \in SeqsUpTo(MidAlphabet, MaxMid),
                   s \in Suffixes}

NoResult == [exc |-> "unset", val |-> <<>>]

\* no status extracted yet
NoStatus == [matched |-> FALSE, word |-> <<>>]

\* a path at which no file exists
NoFile == [kind |-> "absent", props |-> <<>>]

FlowIdle ==
    /\ raw_status = NoStatus
    /\ fs = [hadoop_path |-> NoFile, backup_path |-> NoFile]
    /\ original = NoFile
    /\ local_file = NoFile
    /\ tree = <<>>
    /\ idx = 0
    /\ modified_count = 0
    /\ steps = <<>>

ValueIdle ==
    /\ v_orig = <<>>
    /\ v_name = <<>>
    /\ v_fn = "none"
    /\ v_calls = 0
    /\ v_first = NoResult
    /\ v_res = NoResult

---------------------------------------------------------------------------
(* Specification of the value transformers: one value, one delta, one rule *)
(* applied once and then again to its own result                           *)

InitValue ==
    /\ pc = "value"
    /\ delta_mb \in Deltas
    /\ yarn_only \in BOOLEAN
    /\ v_orig \in Values
    /\ v_name \in IF yarn_only THEN {YarnCommandOpts}
                  ELSE {ReduceMemoryMb, LauncherReduceMemoryMb}
    /\ v_fn = "none"
    /\ v_calls = 0
    /\ v_first = NoResult
    /\ v_res = NoResult
    /\ FlowIdle

\* the argument of the next application
NextArg == IF v_calls = 0 THEN v_orig ELSE v_res.val

CanCall == v_calls < 2 /\ (v_calls > 0 => v_res.exc = "none")

\* process_xml, yarn_only branch: new_value = increase_yarn_value(...)
CallYarn ==
    /\ pc = "value" /\ yarn_only /\ CanCall
    /\ EligibleYarn(v_name)
    /\ v_res' = increase_yarn_value(NextArg, delta_mb)
    /\ v_first' = IF v_calls = 0 THEN v_res' ELSE v_first
    /\ v_fn' = "yarn"
    /\ v_calls' = v_calls + 1
    /\ UNCHANGED <<pc, delta_mb, yarn_only, v_orig, v_name>>
    /\ UNCHANGED flowVars

\* process_xml, general branch: is_reduce_memory from the name, then
\* new_value = increase_general_value(...)
CallGeneral ==
    /\ pc = "value" /\ ~yarn_only /\ CanCall
    /\ EligibleGeneral(v_name)
    /\ v_res' = increase_general_value(NextArg, delta_mb, IsReduceMemory(v_name))
    /\ v_first' = IF v_calls = 0 THEN v_res' ELSE v_first
    /\ v_fn' = "general"
    /\ v_calls' = v_calls + 1
    /\ UNCHANGED <<pc, delta_mb, yarn_only, v_orig, v_name>>
    /\ UNCHANGED flowVars

NextValue == CallYarn \/ CallGeneral

SpecValue == InitValue /\ [][NextValue]_vars

---------------------------------------------------------------------------
(* Documents *)

\* a name or value child: missing, present without text (text is None), or
\* present with text
NoElem == [elem |-> "absent", text |-> <<>>]

NoText == [elem |-> "empty", text |-> <<>>]

Text(t) == [elem |-> "text", text |-> t]

PropNames == {YarnResourceMb, ReduceMemoryMb}

Placeholder == <<"$", "{", "m", "e", "m", "}">>

PropValues ==
    { <<"1", "0", "2", "4">>,
      Xmx \o <<"1", "0", "2", "4", "M">>,
      Placeholder,
      Xmx \o <<"M">>,
      <<" ", "5", "1", "2", "\n">> }

\* property elements: the two exact names with every value, names that
\* contain a key inside a longer name, and properties with a missing or
\* empty name or value child
Props ==
    {[name |-> Text(n), value |-> Text(v)] : n \in PropNames, v \in PropValues}
    \cup {[name |-> Text(YarnResourceMbMax), value |-> Text(<<"1", "0", "2", "4">>)],
          [name |-> Text(LauncherReduceMemoryMb), value |-> Text(<<"1", "0", "2", "4">>)],
          [name |-> Text(LauncherReduceMemoryMb), value |-> Text(Placeholder)],
          [name |-> NoElem, value |-> Text(<<"1", "0", "2", "4">>)],
          [name |-> NoText, value |-> Text(<<"1", "0", "2", "4">>)],
          [name |-> Text(YarnResourceMb), value |-> NoElem],
          [name |-> Text(ReduceMemoryMb), value |-> NoText]}

XmlFile(props) == [kind |-> "xml", props |-> props]

\* a file that ET.parse rejects
Malformed == [kind |-> "malformed", props |-> <<>>]

Files == {XmlFile(d) : d \in SeqsUpTo(Props, MaxProps)} \cup {Malformed}

---------------------------------------------------------------------------
(* Job status *)

LowerSeq == <<"a", "b", "c", "d", "e", "f", "g", "h", "i", "j", "k", "l", "m",
              "n", "o", "p", "q", "r", "s", "t", "u", "v", "w", "x", "y", "z">>

UpperSeq == <<"A", "B", "C", "D", "E", "F", "G", "H", "I", "J", "K", "L", "M",
              "N", "O", "P", "Q", "R", "S", "T", "U", "V", "W", "X", "Y", "Z">>

UpperChar(c) ==
    IF \E i \in 1..26 : LowerSeq[i] = c
    THEN UpperSeq[CHOOSE i \in 1..26 : LowerSeq[i] = c]
    ELSE c

\* str.upper()
Upper(s) == [i \in 1..Len(s) |-> UpperChar(s[i])]

KILLED == <<"K", "I", "L", "L", "E", "D">>

RUNNING == <<"R", "U", "N", "N", "I", "N", "G">>

\* what re.search(r"Status\s+:\s+(\w+)", output) finds in the job info
StatusOutputs ==
    {NoStatus} \cup
    {[matched |-> TRUE, word |-> w] :
        w \in {KILLED, <<"k", "i", "l", "l", "e", "d">>, RUNNING,
               <<"S", "U", "C", "C", "E", "E", "D", "E", "D">>}}

StatusPasses_notRunning(out) == out.matched /\ Upper(out.word) # RUNNING

\* check_oozie_action_status returns instead of exiting
StatusPasses(out) == out.matched /\ Upper(out.word) = KILLED

---------------------------------------------------------------------------
(* Distributed filesystem commands *)

backup_workflow_xml_rm(f) == [f EXCEPT !.hadoop_path = NoFile]

\* hadoop fs -mv hadoop_path backup_path
backup_workflow_xml(f) ==
    [f EXCEPT !.hadoop_path = NoFile, !.backup_path = f.hadoop_path]

\* hadoop fs -put local_file hadoop_path
upload_workflow_xml(f, content) == [f EXCEPT !.hadoop_path = content]

---------------------------------------------------------------------------
(* process_oozie_workflow *)

Init ==
    /\ pc = "check_status"
    /\ raw_status = NoStatus
    /\ delta_mb \in {DeltaOf(a) : a \in Adds}
    /\ yarn_only \in BOOLEAN
    /\ original \in Files
    /\ fs = [hadoop_path |-> original, backup_path |-> NoFile]
    /\ local_file = NoFile
    /\ tree = <<>>
    /\ idx = 0
    /\ modified_count = 0
    /\ steps = <<>>
    /\ ValueIdle

RunCmdPositions == {"check_status", "extract_workflow_id",
                    "extract_hadoop_workflow_path", "download", "backup",
                    "upload"}

\* run_cmd: the command exits non-zero, the script prints and exits
CmdFails ==
    /\ pc \in RunCmdPositions
    /\ pc' = "exited"
    /\ UNCHANGED <<delta_mb, yarn_only>>
    /\ UNCHANGED flowVars
    /\ UNCHANGED valueVars

CheckStatus ==
    /\ pc = "check_status"
    /\ \E out \in StatusOutputs :
        /\ raw_status' = out
        /\ pc' = IF StatusPasses(out) THEN "extract_workflow_id" ELSE "exited"
    /\ steps' = Append(steps, "status")
    /\ UNCHANGED <<delta_mb, yarn_only, fs, original, local_file, tree, idx,
                   modified_count>>
    /\ UNCHANGED valueVars

ExtractWorkflowId ==
    /\ pc = "extract_workflow_id"
    /\ pc' = "extract_hadoop_workflow_path"
    /\ UNCHANGED <<delta_mb, yarn_only>>
    /\ UNCHANGED flowVars
    /\ UNCHANGED valueVars

ExtractHadoopWorkflowPath ==
    /\ pc = "extract_hadoop_workflow_path"
    /\ pc' = "download"
    /\ UNCHANGED <<delta_mb, yarn_only>>
    /\ UNCHANGED flowVars
    /\ UNCHANGED valueVars

\* hadoop fs -get hadoop_path .
Download ==
    /\ pc = "download"
    /\ fs.hadoop_path.kind # "absent"
    /\ local_file' = fs.hadoop_path
    /\ steps' = Append(steps, "download")
    /\ pc' = "backup"
    /\ UNCHANGED <<raw_status, delta_mb, yarn_only, fs, original, tree, idx,
                   modified_count>>
    /\ UNCHANGED valueVars

Backup ==
    /\ pc = "backup"
    /\ fs.hadoop_path.kind # "absent" /\ fs.backup_path.kind = "absent"
    /\ fs' = backup_workflow_xml(fs)
    /\ steps' = Append(steps, "backup")
    /\ pc' = "process_xml"
    /\ UNCHANGED <<raw_status, delta_mb, yarn_only, original, local_file, tree,
                   idx, modified_count>>
    /\ UNCHANGED valueVars

\* process_xml: ET.parse(input_file), modified_count = 0
ParseXml ==
    /\ pc = "process_xml"
    /\ steps' = Append(steps, "process_xml")
    /\ IF local_file.kind = "xml"
       THEN /\ tree' = local_file.props
            /\ pc' = "walk"
       ELSE /\ tree' = tree
            /\ pc' = "parse_error"
    /\ idx' = 0
    /\ modified_count' = 0
    /\ UNCHANGED <<raw_status, delta_mb, yarn_only, fs, original, local_file>>
    /\ UNCHANGED valueVars

\* the transformer call of the active mode on an eligible property, or the
\* value itself for an ineligible one
NewValue(name, value) ==
    IF yarn_only
    THEN IF EligibleYarn(name) THEN increase_yarn_value(value, delta_mb)
         ELSE Returned(value)
    ELSE IF EligibleGeneral(name)
         THEN increase_general_value(value, delta_mb, IsReduceMemory(name))
         ELSE Returned(value)

\* one iteration of the loop over root.iter('property')
WalkProperty ==
    /\ pc = "walk" /\ idx < Len(tree)
    /\ LET prop == tree[idx + 1]
           name == Strip(prop.name.text)
           value == Strip(prop.value.text)
           new_value == NewValue(name, value)
       IN IF prop.name.elem = "absent" \/ prop.value.elem = "absent"
          THEN /\ pc' = "walk"
               /\ UNCHANGED <<tree, modified_count>>
          ELSE IF prop.name.elem = "empty" \/ prop.value.elem = "empty"
          THEN /\ pc' = "walk_raised"    \* None.strip(): AttributeError
               /\ UNCHANGED <<tree, modified_count>>
          ELSE IF new_value.exc # "none"
          THEN /\ pc' = "walk_raised"
               /\ UNCHANGED <<tree, modified_count>>
          ELSE IF new_value.val # value
          THEN /\ pc' = "walk"
               /\ tree' = [tree EXCEPT ![idx + 1].value = Text(new_value.val)]
               /\ modified_count' = modified_count + 1
          ELSE /\ pc' = "walk"
               /\ UNCHANGED <<tree, modified_count>>
    /\ idx' = idx + 1
    /\ UNCHANGED <<raw_status, delta_mb, yarn_only, fs, original, local_file,
                   steps>>
    /\ UNCHANGED valueVars

ShouldWrite_always(count) == count >= 0

ShouldWrite(count) == count > 0

\* the end of process_xml: tree.write(input_file) if anything was modified
FinishXml ==
    /\ pc = "walk" /\ idx = Len(tree)
    /\ IF ShouldWrite(modified_count)
       THEN /\ local_file' = XmlFile(tree)
            /\ steps' = Append(steps, "write")
       ELSE UNCHANGED <<local_file, steps>>
    /\ pc' = "upload"
    /\ UNCHANGED <<raw_status, delta_mb, yarn_only, fs, original, tree, idx,
                   modified_count>>
    /\ UNCHANGED valueVars

Upload ==
    /\ pc = "upload"
    /\ fs.hadoop_path.kind = "absent"
    /\ fs' = upload_workflow_xml(fs, local_file)
    /\ steps' = Append(steps, "upload")
    /\ pc' = "cleanup"
    /\ UNCHANGED <<raw_status, delta_mb, yarn_only, original, local_file, tree,
                   idx, modified_count>>
    /\ UNCHANGED valueVars

\* cleanup_local_file: os.remove, a failure is printed and ignored
Cleanup ==
    /\ pc = "cleanup"
    /\ \E removed \in BOOLEAN :
        local_file' = IF removed THEN NoFile ELSE local_file
    /\ pc' = "done"
    /\ UNCHANGED <<raw_status, delta_mb, yarn_only, fs, original, tree, idx,
                   modified_count, steps>>
    /\ UNCHANGED valueVars

Next ==
    \/ CmdFails
    \/ CheckStatus
    \/ ExtractWorkflowId
    \/ ExtractHadoopWorkflowPath
    \/ Download
    \/ Backup
    \/ ParseXml
    \/ WalkProperty
    \/ FinishXml
    \/ Upload
    \/ Cleanup

Spec == Init /\ [][Next]_vars

---------------------------------------------------------------------------
(* Properties of the value transformers, checked under SpecValue *)

\* the number n of a value -Xmx<n><letter>
XmxNumber(s) == DigitsValue(SubSeq(s, 5, Len(s) - 1))

YarnCalledOnce == pc = "value" /\ v_fn = "yarn" /\ v_calls = 1

GeneralCalledOnce == pc = "value" /\ v_fn = "general" /\ v_calls = 1

\* C1: increase_yarn_value returns every value that is neither -Xmx<digits>M
\* nor all digits unchanged, and raises nothing.
C1_YarnUnrecognizedUnchanged ==
    (YarnCalledOnce /\ ~IsXmxForm(v_orig, {"M"}) /\ ~IsDigit(v_orig))
        => v_res = Returned(v_orig)

\* C3: increase_general_value, on a value that is no placeholder and not all
\* digits, adds delta to a value that is wholly -Xmx<n><m|M>, keeping the
\* letter, and returns every other value unchanged.
C3_GeneralXmxWholeValueOnly ==
    (GeneralCalledOnce /\ ~StartsWith(v_orig, <<"$", "{">>) /\ ~IsDigit(v_orig))
        => IF IsXmxForm(v_orig, {"m", "M"})
           THEN v_res = Returned(Xmx \o IntToStr(XmxNumber(v_orig) + delta_mb)
                                     \o <<v_orig[Len(v_orig)]>>)
           ELSE v_res = Returned(v_orig)

\* C7: for a value beginning with ${, the general rule yields
\* -Xmx<delta-512>M when the property name is exactly
\* mapreduce.reduce.memory.mb and str(delta) for any other eligible name,
\* whatever follows the ${.
C7_PlaceholderRule ==
    (GeneralCalledOnce /\ StartsWith(v_orig, <<"$", "{">>))
        => v_res = IF v_name = ReduceMemoryMb
                   THEN Returned(Xmx \o IntToStr(delta_mb - 512) \o <<"M">>)
                   ELSE Returned(IntToStr(delta_mb))

C7_Witness ==
    /\ GeneralCalledOnce
    /\ StartsWith(v_orig, <<"$", "{">>) /\ Len(v_orig) > 2
    /\ v_name # ReduceMemoryMb /\ Contains(v_name, ReduceMemoryMb)
    /\ delta_mb = 1024
    /\ v_res.val = <<"1", "0", "2", "4">>

\* C8: for delta >= 0 increase_yarn_value adds exactly delta and keeps the
\* format, for all-digit values and for -Xmx<n>M values.
C8_YarnAddsDelta ==
    (YarnCalledOnce /\ delta_mb >= 0)
        => /\ IsDigit(v_orig)
                => v_res = Returned(IntToStr(DigitsValue(v_orig) + delta_mb))
           /\ IsXmxForm(v_orig, {"M"})
                => v_res = Returned(Xmx \o IntToStr(XmxNumber(v_orig) + delta_mb)
                                        \o <<"M">>)

C8_Witness ==
    /\ YarnCalledOnce
    /\ delta_mb = 1024
    /\ v_orig = Xmx \o <<"1", "0", "M">>
    /\ v_res.val = Xmx \o <<"1", "0", "3", "4", "M">>

\* the formats the claim of C9 covers, per rule
RecognizedBy(fn, s) ==
    \/ IsDigit(s)
    \/ IsXmxForm(s, IF fn = "yarn" THEN {"M"} ELSE {"m", "M"})

\* C9: for delta > 0 and a value in a recognized format, the result of one
\* application is again in a recognized format and a second application
\* gives a different result.
C9_NoFalseIdempotence ==
    (pc = "value" /\ v_calls = 2 /\ delta_mb > 0 /\ RecognizedBy(v_fn, v_orig))
        => /\ v_first.exc = "none"
           /\ RecognizedBy(v_fn, v_first.val)
           /\ v_res.exc = "none"
           /\ v_res.val # v_first.val

C9_Witness ==
    /\ pc = "value" /\ v_calls = 2 /\ v_fn = "general" /\ delta_mb = 1024
    /\ v_orig = Xmx \o <<"1", "m">>
    /\ v_first.val = Xmx \o <<"1", "0", "2", "5", "m">>
    /\ v_res.val = Xmx \o <<"2", "0", "4", "9", "m">>

---------------------------------------------------------------------------
(* Properties of process_xml and process_oozie_workflow, checked under Spec *)

Done(step) == \E i \in 1..Len(steps) : steps[i] = step

MutatingSteps == {"download", "backup", "process_xml", "write", "upload"}

\* the name of a property as process_xml reads it
NameOf(prop) == Strip(prop.name.text)

\* the property has no name that the active mode selects
Ineligible(prop) ==
    \/ prop.name.elem # "text"
    \/ IF yarn_only
       THEN NameOf(prop) \notin {YarnCommandOpts, YarnResourceMb}
       ELSE \A k \in {MapMemoryMb, MapJavaOpts, ReduceMemoryMb, ReduceJavaOpts} :
                ~Contains(NameOf(prop), k)

\* C2: process_xml either fails to parse before any edit or walks every
\* property to the end; no property aborts the walk part-way.
C2_WalkNeverAborts == pc # "walk_raised"

\* C4 as stated: download, backup, process_xml and upload run only when the
\* status the query returned equals KILLED.
C4_OnlyWhenStatusEqualsKILLED ==
    (\E st \in MutatingSteps : Done(st))
        => (raw_status.matched /\ raw_status.word = KILLED)

\* C4 amended: download, backup, process_xml and upload run only when the
\* status the query returned, upper-cased, equals KILLED; with any other
\* status or none, the run ends with the filesystem and the local file
\* untouched.
C4_OnlyWhenStatusIsKilledIgnoringCase ==
    /\ (\E st \in MutatingSteps : Done(st))
          => (raw_status.matched /\ Upper(raw_status.word) = KILLED)
    /\ (Done("status") /\ ~(raw_status.matched /\ Upper(raw_status.word) = KILLED))
          => /\ pc = "exited"
             /\ fs = [hadoop_path |-> original, backup_path |-> NoFile]
             /\ local_file = NoFile
             /\ tree = <<>> /\ modified_count = 0

C4_Witness ==
    /\ Done("upload")
    /\ raw_status.word = <<"k", "i", "l", "l", "e", "d">>
    /\ modified_count > 0

\* C5: a property whose name is ineligible for the active mode keeps its
\* value, in the tree and in the uploaded document, and modified_count
\* counts eligible properties only.
C5_IneligibleUntouched ==
    /\ \A i \in 1..Len(tree) :
          Ineligible(original.props[i]) => tree[i] = original.props[i]
    /\ Done("upload") =>
          \A i \in 1..Len(original.props) :
              Ineligible(original.props[i])
                  => fs.hadoop_path.props[i] = original.props[i]
    /\ modified_count <=
          Cardinality({i \in 1..idx : ~Ineligible(original.props[i])})

C5_Witness ==
    /\ Done("upload") /\ yarn_only /\ modified_count = 1
    /\ \E i \in 1..Len(tree) :
          /\ NameOf(original.props[i]) = YarnResourceMbMax
          /\ IsDigit(Strip(original.props[i].value.text))
          /\ fs.hadoop_path.props[i] = original.props[i]

\* process_xml has returned
XmlReturned == Done("process_xml") /\ pc \notin {"walk", "walk_raised", "parse_error"}

\* C6: when process_xml returns, modified_count is the number of properties
\* whose value text was overwritten with a different value, and the file was
\* written iff modified_count > 0; with modified_count = 0 the file is as it
\* was downloaded.
C6_CountAndWrite ==
    XmlReturned =>
        /\ modified_count =
              Cardinality({i \in 1..Len(tree) :
                              tree[i].value # original.props[i].value})
        /\ Done("write") <=> modified_count > 0
        /\ pc = "upload" =>
              local_file = IF modified_count > 0 THEN XmlFile(tree) ELSE original

C6_Witness ==
    /\ pc = "upload" /\ modified_count = 0 /\ ~Done("write")
    /\ Len(tree) > 0 /\ ~Ineligible(tree[1])
    /\ local_file = original

\* the order of the workflow steps
StepOrder == <<"status", "download", "backup", "process_xml", "write",
               "upload">>

RECURSIVE Without(_, _)
Without(s, x) ==
    IF Len(s) = 0 THEN <<>>
    ELSE IF s[1] = x THEN Without(Tail(s), x)
    ELSE <<s[1]>> \o Without(Tail(s), x)

\* C10: the steps run in the order download, backup, process_xml, upload;
\* after the download the original content is at hadoop_path or at the
\* backup path, and once a document was uploaded the original is at the
\* backup path.
C10_OriginalPreserved ==
    /\ \E n \in 0..5 : Without(steps, "write") = SubSeq(Without(StepOrder, "write"), 1, n)
    /\ Done("download") =>
          (fs.hadoop_path = original \/ fs.backup_path = original)
    /\ Done("upload") => fs.backup_path = original

C10_Witness ==
    /\ pc = "walk_raised"
    /\ fs.hadoop_path = NoFile
    /\ fs.backup_path = original

====
